---------------------------- MODULE Spec2Model ----------------------------
(***************************************************************************)
(* Model of src/payment_method.rs: the validated builders of the payment   *)
(* method records and their rendering to markup.                           *)
(*                                                                         *)
(* A text (&str) is a sequence of Unicode code points.  str::len() is the  *)
(* length of its UTF-8 encoding in bytes, Utf8Len; the number of           *)
(* characters is Len.                                                      *)
(***************************************************************************)
EXTENDS Integers, Sequences, FiniteSets

VARIABLES sepa, acct, ubt, card, pm, out, last, added, ctor, want

vars == <<sepa, acct, ubt, card, pm, out, last, added, ctor, want>>

-----------------------------------------------------------------------------
(* Bounds of the explored inputs.                                          *)

\* Lengths around each limit are explored up to this distance from it.
Slack == 1

\* Largest number of with_beneficiary_account calls on one transaction.
MaxAccounts == 2

-----------------------------------------------------------------------------
(* Texts.                                                                  *)

\* Bytes of the UTF-8 encoding of one code point.
Utf8Width(c) ==
    IF c < 128 THEN 1 ELSE IF c < 2048 THEN 2 ELSE IF c < 65536 THEN 3 ELSE 4

\* str::len(): the byte length of the text, the sum of the widths of its
\* code points (one byte each, and one more for each width above 1, 2, 3).
Utf8Len(s) ==
    Len(s)
    + Cardinality({ i \in 1..Len(s) : Utf8Width(s[i]) >= 2 })
    + Cardinality({ i \in 1..Len(s) : Utf8Width(s[i]) >= 3 })
    + Cardinality({ i \in 1..Len(s) : Utf8Width(s[i]) >= 4 })

\* n copies of the code point c.
Rep(c, n) == [i \in 1..n |-> c]

\* s with the code point at position i replaced by c.
WithAt(s, i, c) == [s EXCEPT ![i] = c]

\* Code points used below.
cStar == 42
cDash == 45
cZero == 48
cNine == 57
cUpperA == 65
cUpperZ == 90
cLowerA == 97
cLowerZ == 122

RECURSIVE Digits10(_)
\* The decimal digits of a natural number, most significant first.
Digits10(n) ==
    IF n < 10 THEN <<cZero + n>> ELSE Digits10(n \div 10) \o <<cZero + (n % 10)>>

\* format!("{}", n) for an i64.
FormatInt(n) == IF n < 0 THEN <<cDash>> \o Digits10(0 - n) ELSE Digits10(n)

\* format!("{}", b) for a bool: "true" or "false".
FormatBool(b) == IF b THEN <<116, 114, 117, 101>> ELSE <<102, 97, 108, 115, 101>>

-----------------------------------------------------------------------------
(* Regular expressions, as the regex crate matches them: a pattern is a    *)
(* sequence of nodes between the anchors ^ and $, a node either a          *)
(* character class repeated lo..hi times or an optional group.             *)

Class(cls, lo, hi) == [t |-> "rep", cls |-> cls, lo |-> lo, hi |-> hi, sub |-> <<>>]
Opt(sub) == [t |-> "opt", cls |-> {}, lo |-> 0, hi |-> 1, sub |-> sub]

ClassDigit == cZero..cNine
ClassAlnum == (cZero..cNine) \cup (cUpperA..cUpperZ) \cup (cLowerA..cLowerZ)

\* Positions reachable from p by matching lo..hi characters of cls.
RepEnds(node, s, p) ==
    { p + k : k \in { j \in node.lo..node.hi :
                        /\ p + j <= Len(s)
                        /\ \A i \in (p + 1)..(p + j) : s[i] \in node.cls } }

RECURSIVE Ends(_, _, _)
\* Positions at which a match of the node sequence re, begun at a position
\* of starts, can end.
Ends(re, s, starts) ==
    IF re = <<>> THEN starts
    ELSE LET n == Head(re)
             next == IF n.t = "rep"
                     THEN UNION { RepEnds(n, s, p) : p \in starts }
                     ELSE starts \cup Ends(n.sub, s, starts)
         IN  Ends(Tail(re), s, next)

\* Regex::is_match for a pattern anchored by ^ and $ ($ matches only at the
\* end of the text).
IsMatch(re, s) == Len(s) \in Ends(re, s, {0})

\* ^[0-9A-Za-z]{8}([0-9A-Za-z]{3})?$
BIC_REGEX_STR_NoGroup == <<Class(ClassAlnum, 8, 8)>>
BIC_REGEX_STR == <<Class(ClassAlnum, 8, 8), Opt(<<Class(ClassAlnum, 3, 3)>>)>>

\* ^[0-9]{4}-[0-9]{2}-[0-9]{2}$
DATE_REGEX_STR_NoDay == <<Class(ClassDigit, 4, 4), Class({cDash}, 1, 1),
                          Class(ClassDigit, 2, 2), Class({cDash}, 1, 1),
                          Class(ClassDigit, 0, 2)>>
DATE_REGEX_STR == <<Class(ClassDigit, 4, 4), Class({cDash}, 1, 1),
                    Class(ClassDigit, 2, 2), Class({cDash}, 1, 1),
                    Class(ClassDigit, 2, 2)>>

\* ^[0-9]{0,6}\*[0-9]{0,4}$
PAYMENT_CARD_REGEX_STR_Wide == <<Class(ClassDigit, 0, 6), Class({cStar}, 1, 1),
                                 Class(ClassDigit, 0, 6)>>
PAYMENT_CARD_REGEX_STR == <<Class(ClassDigit, 0, 6), Class({cStar}, 1, 1),
                            Class(ClassDigit, 0, 4)>>

\* MatchBicRegex::match_bic_regex, shared by both implementors.
match_bic_regex(bic) == IsMatch(BIC_REGEX_STR, bic)

-----------------------------------------------------------------------------
(* Option<T> and Result<Self, String>.                                     *)

None == [some |-> FALSE, v |-> <<>>]
Some(x) == [some |-> TRUE, v |-> x]

\* Ok(self): the updated record is handed back.
Ok(self) == [ok |-> TRUE, self |-> self, err |-> [field |-> "", value |-> <<>>]]

\* Err(message): the message names the field and the rejected value; self is
\* the record as it is when the setter returns and drops it.
Err(self, field, value) ==
    [ok |-> FALSE, self |-> self, err |-> [field |-> field, value |-> value]]

-----------------------------------------------------------------------------
(* PaymentMethodSEPADirectDebit.                                           *)

SepaIbanMax == 34
SepaBankAccountOwnerMax == 70
CreditorIdMax == 35
MandateReferenceMax == 35

\* derive(Default) / new()
SepaDefault ==
    [direct_debit_type |-> None, bic |-> None, iban |-> None,
     bank_account_owner |-> None, creditor_id |-> None,
     mandate_reference |-> None, debit_collection_date |-> None]

Sepa_with_direct_debit_type(self, direct_debit_type) ==
    [self EXCEPT !.direct_debit_type = Some(direct_debit_type)]

Sepa_with_bic(self, bic) ==
    IF ~match_bic_regex(bic) THEN Err(self, "BIC", bic)
    ELSE Ok([self EXCEPT !.bic = Some(bic)])

Sepa_with_iban_AssignFirst(self, iban) ==
    LET set == [self EXCEPT !.iban = Some(iban)]
    IN  IF Utf8Len(iban) > SepaIbanMax THEN Err(set, "IBAN", iban) ELSE Ok(set)
Sepa_with_iban(self, iban) ==
    IF Utf8Len(iban) > SepaIbanMax THEN Err(self, "IBAN", iban)
    ELSE Ok([self EXCEPT !.iban = Some(iban)])

Sepa_with_bank_account_owner(self, bank_account_owner) ==
    IF Utf8Len(bank_account_owner) > SepaBankAccountOwnerMax
    THEN Err(self, "BankAccountOwner", bank_account_owner)
    ELSE Ok([self EXCEPT !.bank_account_owner = Some(bank_account_owner)])

Sepa_with_creditor_id_ClearsMandate(self, creditor_id) ==
    IF Utf8Len(creditor_id) > CreditorIdMax
    THEN Err(self, "CreditorID", creditor_id)
    ELSE Ok([self EXCEPT !.creditor_id = Some(creditor_id), !.mandate_reference = None])
Sepa_with_creditor_id(self, creditor_id) ==
    IF Utf8Len(creditor_id) > CreditorIdMax
    THEN Err(self, "CreditorID", creditor_id)
    ELSE Ok([self EXCEPT !.creditor_id = Some(creditor_id)])

Sepa_with_mandate_reference(self, mandate_reference) ==
    IF Utf8Len(mandate_reference) > MandateReferenceMax
    THEN Err(self, "MandateReference", mandate_reference)
    ELSE Ok([self EXCEPT !.mandate_reference = Some(mandate_reference)])

Sepa_with_debit_collection_date(self, debit_collection_date) ==
    IF ~IsMatch(DATE_REGEX_STR, debit_collection_date)
    THEN Err(self, "DebitCollectionDate", debit_collection_date)
    ELSE Ok([self EXCEPT !.debit_collection_date = Some(debit_collection_date)])

-----------------------------------------------------------------------------
(* PaymentMethodUniversalBankTransactionBeneficiaryAccount and its bank    *)
(* code.                                                                   *)

BankNameMax == 255
BankCodeTypeLen == 2
AcctIbanMax == 34
AcctBankAccountOwnerMax == 70

\* PaymentMethodUniversalBankTransactionBeneficiaryAccountBankCode::new
BankCode_new(bank_code, bank_code_type) ==
    [bank_code |-> bank_code, bank_code_type |-> bank_code_type]

NoBankCode == [some |-> FALSE, v |-> BankCode_new(0, <<>>)]

\* derive(Default) / new()
AcctDefault ==
    [bank_name |-> None, bank_code |-> NoBankCode, bic |-> None,
     bank_account_number |-> None, iban |-> None, bank_account_owner |-> None]

Acct_with_bank_name(self, bank_name) ==
    IF Utf8Len(bank_name) > BankNameMax THEN Err(self, "BankName", bank_name)
    ELSE Ok([self EXCEPT !.bank_name = Some(bank_name)])

Acct_with_bank_code(self, bank_code) ==
    IF Utf8Len(bank_code.bank_code_type) # BankCodeTypeLen
    THEN Err(self, "BankCodeType", bank_code.bank_code_type)
    ELSE Ok([self EXCEPT !.bank_code = Some(bank_code)])

Acct_with_bic(self, bic) ==
    IF ~match_bic_regex(bic) THEN Err(self, "BIC", bic)
    ELSE Ok([self EXCEPT !.bic = Some(bic)])

Acct_with_bank_account_number(self, bank_account_number) ==
    [self EXCEPT !.bank_account_number = Some(bank_account_number)]

Acct_with_iban(self, iban) ==
    IF Utf8Len(iban) > AcctIbanMax THEN Err(self, "IBAN", iban)
    ELSE Ok([self EXCEPT !.iban = Some(iban)])

Acct_with_bank_account_owner(self, bank_account_owner) ==
    IF Utf8Len(bank_account_owner) > AcctBankAccountOwnerMax
    THEN Err(self, "BankAccountOwner", bank_account_owner)
    ELSE Ok([self EXCEPT !.bank_account_owner = Some(bank_account_owner)])

-----------------------------------------------------------------------------
(* PaymentMethodUniversalBankTransaction.                                  *)

PaymentReferenceMax == 35

NoBool == [some |-> FALSE, v |-> FALSE]

\* derive(Default) / new()
UbtDefault ==
    [consolidator_payable |-> NoBool, beneficiary_account |-> None,
     payment_reference |-> None, payment_reference_checksum |-> None]

Ubt_with_consolidator_payable(self, consolidator_payable) ==
    [self EXCEPT !.consolidator_payable = Some(consolidator_payable)]

\* get_or_insert_with(Vec::new).push(beneficiary_account)
Ubt_with_beneficiary_account_Prepend(self, beneficiary_account) ==
    [self EXCEPT !.beneficiary_account = Some(<<beneficiary_account>> \o @.v)]
Ubt_with_beneficiary_account(self, beneficiary_account) ==
    [self EXCEPT !.beneficiary_account = Some(Append(@.v, beneficiary_account))]

Ubt_with_payment_reference(self, payment_reference) ==
    IF Utf8Len(payment_reference) > PaymentReferenceMax
    THEN Err(self, "PaymentReference", payment_reference)
    ELSE Ok([self EXCEPT !.payment_reference = Some(payment_reference)])

Ubt_with_payment_reference_checksum(self, payment_reference_checksum) ==
    [self EXCEPT !.payment_reference_checksum = Some(payment_reference_checksum)]

-----------------------------------------------------------------------------
(* PaymentMethodPaymentCard.                                               *)

\* derive(Default): the empty text and no holder name.
CardDefault == [primary_account_number |-> <<>>, card_holder_name |-> None]

Card_new(primary_account_number) ==
    IF ~IsMatch(PAYMENT_CARD_REGEX_STR, primary_account_number)
    THEN Err(CardDefault, "primary account number", primary_account_number)
    ELSE Ok([CardDefault EXCEPT !.primary_account_number = primary_account_number])

Card_with_card_holder_name(self, card_holder_name) ==
    [self EXCEPT !.card_holder_name = Some(card_holder_name)]

-----------------------------------------------------------------------------
(* PaymentMethodType and PaymentMethod.                                    *)

\* One variant is active; the payloads of the others are unused defaults.
Method(type, s, a, u, c) == [type |-> type, sepa |-> s, acct |-> a, ubt |-> u, card |-> c]

MethodNoPayment == Method("NoPayment", SepaDefault, AcctDefault, UbtDefault, CardDefault)
MethodOtherPayment == Method("OtherPayment", SepaDefault, AcctDefault, UbtDefault, CardDefault)
MethodSEPADirectDebit(p) == Method("SEPADirectDebit", p, AcctDefault, UbtDefault, CardDefault)
MethodBeneficiaryAccount(p) ==
    Method("UniversalBankTransactionBeneficiaryAccount", SepaDefault, p, UbtDefault, CardDefault)
MethodUniversalBankTransaction(p) ==
    Method("UniversalBankTransaction", SepaDefault, AcctDefault, p, CardDefault)
MethodPaymentCard(p) == Method("PaymentCard", SepaDefault, AcctDefault, UbtDefault, p)

\* derive(Default): no comment, NoPayment.
PaymentMethodDefault == [comment |-> None, method |-> MethodNoPayment]

PaymentMethod_no_payment == [PaymentMethodDefault EXCEPT !.method = MethodNoPayment]
PaymentMethod_other_payment == [PaymentMethodDefault EXCEPT !.method = MethodOtherPayment]
PaymentMethod_sepa_direct_debit(p) ==
    [PaymentMethodDefault EXCEPT !.method = MethodSEPADirectDebit(p)]
PaymentMethod_universal_bank_transaction(p) ==
    [PaymentMethodDefault EXCEPT !.method = MethodUniversalBankTransaction(p)]
PaymentMethod_universal_bank_transaction_beneficiary_account(p) ==
    [PaymentMethodDefault EXCEPT !.method = MethodBeneficiaryAccount(p)]
PaymentMethod_payment_card(p) ==
    [PaymentMethodDefault EXCEPT !.method = MethodPaymentCard(p)]

PaymentMethod_with_comment(self, comment) == [self EXCEPT !.comment = Some(comment)]

-----------------------------------------------------------------------------
(* crate::xml: XmlElement and ToXml.  Markup is kept as the sequence of    *)
(* its pieces: an opening tag with its attributes, a text, a closing tag.  *)

OpenTok(name, attrs) == [k |-> "open", name |-> name, attrs |-> attrs, text |-> <<>>]
TextTok(text) == [k |-> "text", name |-> "", attrs |-> <<>>, text |-> text]
CloseTok(name) == [k |-> "close", name |-> name, attrs |-> <<>>, text |-> <<>>]

Attr(key, value) == [name |-> key, value |-> value]

XmlElement_new(name) == [name |-> name, attrs |-> <<>>, body |-> <<>>]

Xml_with_attr(e, key, value) == [e EXCEPT !.attrs = Append(@, Attr(key, value))]

Xml_with_text(e, text) == [e EXCEPT !.body = Append(@, TextTok(text))]

\* The rendering of the node: <name attrs>body</name>.
Xml_to_xml(e) == <<OpenTok(e.name, e.attrs)>> \o e.body \o <<CloseTok(e.name)>>

\* Attach a child given by its rendering.
Xml_with_element(e, child) == [e EXCEPT !.body = @ \o child]

Xml_with_text_element(e, name, text) ==
    Xml_with_element(e, Xml_to_xml(Xml_with_text(XmlElement_new(name), text)))

\* "if let Some(x) = field { e = e.with_text_element(name, x) }"
IfSomeTextElement(e, name, field) ==
    IF field.some THEN Xml_with_text_element(e, name, field.v) ELSE e

-----------------------------------------------------------------------------
(* impl ToXml for the records.                                             *)

B2C == <<66, 50, 67>>

Sepa_to_xml_BicLast(self) ==
    LET e0 == XmlElement_new("SEPADirectDebit")
        e1 == Xml_with_text_element(e0, "Type",
                IF self.direct_debit_type.some THEN self.direct_debit_type.v ELSE B2C)
        e3 == IfSomeTextElement(e1, "IBAN", self.iban)
        e4 == IfSomeTextElement(e3, "BankAccountOwner", self.bank_account_owner)
        e5 == IfSomeTextElement(e4, "CreditorID", self.creditor_id)
        e6 == IfSomeTextElement(e5, "MandateReference", self.mandate_reference)
        e7 == IfSomeTextElement(e6, "DebitCollectionDate", self.debit_collection_date)
        e8 == IfSomeTextElement(e7, "BIC", self.bic)
    IN  Xml_to_xml(e8)
Sepa_to_xml(self) ==
    LET e0 == XmlElement_new("SEPADirectDebit")
        e1 == Xml_with_text_element(e0, "Type",
                IF self.direct_debit_type.some THEN self.direct_debit_type.v ELSE B2C)
        e2 == IfSomeTextElement(e1, "BIC", self.bic)
        e3 == IfSomeTextElement(e2, "IBAN", self.iban)
        e4 == IfSomeTextElement(e3, "BankAccountOwner", self.bank_account_owner)
        e5 == IfSomeTextElement(e4, "CreditorID", self.creditor_id)
        e6 == IfSomeTextElement(e5, "MandateReference", self.mandate_reference)
        e7 == IfSomeTextElement(e6, "DebitCollectionDate", self.debit_collection_date)
    IN  Xml_to_xml(e7)

Acct_to_xml(self) ==
    LET e0 == XmlElement_new("BeneficiaryAccount")
        e1 == IfSomeTextElement(e0, "BankName", self.bank_name)
        bank_code_xml_element ==
            Xml_with_attr(
                Xml_with_text(XmlElement_new("BankCode"),
                              FormatInt(self.bank_code.v.bank_code)),
                "BankCodeType", self.bank_code.v.bank_code_type)
        e2 == IF self.bank_code.some
              THEN Xml_with_element(e1, Xml_to_xml(bank_code_xml_element))
              ELSE e1
        e3 == IfSomeTextElement(e2, "BIC", self.bic)
        e4 == IfSomeTextElement(e3, "BankAccountNr", self.bank_account_number)
        e5 == IfSomeTextElement(e4, "IBAN", self.iban)
        e6 == IfSomeTextElement(e5, "BankAccountOwner", self.bank_account_owner)
    IN  Xml_to_xml(e6)

RECURSIVE WithAccounts(_, _)
\* "for account in beneficiary_account { e = e.with_element(account) }"
WithAccounts(e, accounts) ==
    IF accounts = <<>> THEN e
    ELSE WithAccounts(Xml_with_element(e, Acct_to_xml(Head(accounts))), Tail(accounts))

Ubt_to_xml(self) ==
    LET e0 == XmlElement_new("UniversalBankTransaction")
        e1 == Xml_with_attr(e0, "ConsolidatorPayable",
                FormatBool(IF self.consolidator_payable.some
                           THEN self.consolidator_payable.v ELSE FALSE))
        e2 == IF self.beneficiary_account.some
              THEN WithAccounts(e1, self.beneficiary_account.v) ELSE e1
        p0 == Xml_with_text(XmlElement_new("PaymentReference"), self.payment_reference.v)
        p1 == IF self.payment_reference_checksum.some
              THEN Xml_with_attr(p0, "CheckSum", self.payment_reference_checksum.v)
              ELSE p0
        e3 == IF self.payment_reference.some
              THEN Xml_with_element(e2, Xml_to_xml(p1)) ELSE e2
    IN  Xml_to_xml(e3)

Card_to_xml(self) ==
    LET e0 == XmlElement_new("PaymentCard")
        e1 == Xml_with_text_element(e0, "PrimaryAccountNumber", self.primary_account_number)
        e2 == IfSomeTextElement(e1, "CardHolderName", self.card_holder_name)
    IN  Xml_to_xml(e2)

\* impl ToXml for PaymentMethodType: the renderer of the active variant.
MethodType_to_xml_NoPaymentForOther(m) ==
    CASE m.type = "NoPayment" -> Xml_to_xml(XmlElement_new("NoPayment"))
      [] m.type = "SEPADirectDebit" -> Sepa_to_xml(m.sepa)
      [] m.type = "UniversalBankTransactionBeneficiaryAccount" -> Acct_to_xml(m.acct)
      [] m.type = "UniversalBankTransaction" -> Ubt_to_xml(m.ubt)
      [] m.type = "PaymentCard" -> Card_to_xml(m.card)
      [] m.type = "OtherPayment" -> Xml_to_xml(XmlElement_new("NoPayment"))
MethodType_to_xml(m) ==
    CASE m.type = "NoPayment" -> Xml_to_xml(XmlElement_new("NoPayment"))
      [] m.type = "SEPADirectDebit" -> Sepa_to_xml(m.sepa)
      [] m.type = "UniversalBankTransactionBeneficiaryAccount" -> Acct_to_xml(m.acct)
      [] m.type = "UniversalBankTransaction" -> Ubt_to_xml(m.ubt)
      [] m.type = "PaymentCard" -> Card_to_xml(m.card)
      [] m.type = "OtherPayment" -> Xml_to_xml(XmlElement_new("OtherPayment"))

PaymentMethod_to_xml(self) ==
    LET e0 == XmlElement_new("PaymentMethod")
        e1 == IfSomeTextElement(e0, "Comment", self.comment)
        e2 == Xml_with_element(e1, MethodType_to_xml(self.method))
    IN  Xml_to_xml(e2)

-----------------------------------------------------------------------------
(* Inputs of the callers.                                                  *)

\* Code points that are no ASCII letter or digit: the neighbours of the three
\* ranges of [0-9A-Za-z], a two-byte letter and a non-ASCII digit.
Symbols == {47, 58, 64, 91, 96, 123, 233, 1632}

MixChars == <<cZero, cNine, cUpperA, cUpperZ, cLowerA, cLowerZ>>

\* n ASCII letters and digits.
Mix(n) == [i \in 1..n |-> MixChars[((i - 1) % 6) + 1]]

\* "123...": the first n decimal digits counted from 1.
Dig(n) == [i \in 1..n |-> cZero + (i % 10)]

Date_2020_01_01 == <<50, 48, 50, 48, 45, 48, 49, 45, 48, 49>>
Date_2020_13_99 == <<50, 48, 50, 48, 45, 49, 51, 45, 57, 57>>
Date_2020_13_40 == <<50, 48, 50, 48, 45, 49, 51, 45, 52, 48>>

Pan_123456_4321 == <<49, 50, 51, 52, 53, 54, 42, 52, 51, 50, 49>>
Pan_1234567_4321 == <<49, 50, 51, 52, 53, 54, 55, 42, 52, 51, 50, 49>>
Pan_123456_43210 == <<49, 50, 51, 52, 53, 54, 42, 52, 51, 50, 49, 48>>

\* Texts around a length limit: ASCII texts of about cap characters, and
\* texts of two-byte and three-byte characters of about cap bytes and of cap
\* characters.
CapInputsWide(cap) ==
    {<<>>}
    \cup { Rep(cUpperA, n) : n \in (cap - Slack)..(cap + Slack) }
    \cup { Rep(233, n) : n \in ((cap \div 2) - Slack)..((cap \div 2) + Slack + 1) }
    \cup { Rep(8364, n) : n \in ((cap \div 3) - Slack)..((cap \div 3) + Slack + 1) }
    \cup { Rep(233, cap), Rep(233, cap + 1) }

\* The limit itself in ASCII and in two-byte characters, and one more.
CapInputs(cap) ==
    { Rep(cUpperA, cap), Rep(233, cap \div 2), Rep(cUpperA, cap + 1),
      Rep(233, (cap \div 2) + 1) }

BicInputsWide ==
    {<<>>}
    \cup { Mix(n) : n \in (8 - Slack)..(11 + Slack) }
    \cup UNION { { WithAt(Mix(n), i, c) : i \in {1, 8, n}, c \in Symbols } : n \in {8, 11} }
    \cup { Mix(n) \o <<10>> : n \in {8, 11} }

BicInputs == { Mix(8), Mix(11), Mix(9) }

DateInputsWide ==
    {<<>>, Date_2020_01_01, Date_2020_13_99, Date_2020_13_40}
    \cup { WithAt(Date_2020_01_01, i, c) :
             i \in 1..10, c \in {cDash, cZero, cUpperA, 47, 58, 1632} }
    \cup { SubSeq(Date_2020_01_01, 1, 10 - k) : k \in 1..Slack }
    \cup { Date_2020_01_01 \o Rep(cZero, k) : k \in 1..Slack }
    \cup { Rep(cZero, k) \o Date_2020_01_01 : k \in 1..Slack }
    \cup { Date_2020_01_01 \o <<10>> }

DateInputs == { Date_2020_01_01, Date_2020_13_99, SubSeq(Date_2020_01_01, 1, 9) }

PanInputsWide ==
    {<<>>, Pan_123456_4321, Pan_1234567_4321, Pan_123456_43210}
    \cup { Dig(i) \o <<cStar>> \o Dig(j) : i \in 0..(6 + Slack), j \in 0..(4 + Slack) }
    \cup { Dig(n) : n \in 1..(10 + Slack) }
    \cup { Dig(i) \o <<cStar, cStar>> \o Dig(j) : i \in 0..Slack, j \in 0..Slack }
    \cup { Dig(i) \o <<cStar>> \o Dig(j) \o <<cStar>> : i \in 0..Slack, j \in 1..(Slack + 1) }
    \cup { WithAt(Pan_123456_4321, i, c) : i \in {1, 6, 7, 8, 11}, c \in Symbols \cup {cUpperA} }
    \cup { <<cStar, 10>>, <<10, cStar>> }

PanInputs == { Pan_123456_4321, <<cStar>>, Pan_1234567_4321 }

BankCodeTypesWide ==
    { Rep(cUpperA, n) : n \in 0..(2 + Slack) }
    \cup { Rep(233, n) : n \in 1..2 }
    \cup { <<cUpperA, 233>>, <<8364>>, <<cUpperA, cUpperA + 19>> }

BankCodeTypes == { <<cUpperA, cUpperA + 19>>, <<cUpperA>>, <<233>> }

BankCodeValues == {-1, 0, 12000}

DirectDebitTypes == { <<66, 50, 66>>, B2C }

\* Free texts: names, comments, account numbers, checksums.
FreeTexts == { <<88>>, <<>> }

\* The texts of tests::universal_bank_transaction.
Text_Bank == <<66, 97, 110, 107>>
Text_AT == <<65, 84>>
Text_BKAUATWW == <<66, 75, 65, 85, 65, 84, 87, 87>>
Text_11111111111 == <<49, 49, 49, 49, 49, 49, 49, 49, 49, 49, 49>>
Text_AT491200011111111111 == <<65, 84, 52, 57, 49, 50, 48, 48, 48, 49, 49, 49, 49, 49, 49, 49, 49, 49, 49, 49>>
Text_Name == <<78, 97, 109, 101>>

\* Beneficiary accounts built with the setters, as handed to
\* with_beneficiary_account: an empty one, one with a bank code and an IBAN,
\* and the fully populated one of tests::universal_bank_transaction.
AccountEmpty == AcctDefault
AccountShort ==
    Acct_with_iban(
        Acct_with_bank_code(AcctDefault, BankCode_new(12000, <<cUpperA, cUpperA + 19>>)).self,
        Mix(20)).self
AccountFull ==
    Acct_with_bank_account_owner(
        Acct_with_iban(
            Acct_with_bank_account_number(
                Acct_with_bic(
                    Acct_with_bank_code(
                        Acct_with_bank_name(AcctDefault, Text_Bank).self,
                        BankCode_new(12000, Text_AT)).self,
                    Text_BKAUATWW).self,
                Text_11111111111),
            Text_AT491200011111111111).self,
        Text_Name).self

AccountInputs == { AccountEmpty, AccountShort, AccountFull }

-----------------------------------------------------------------------------
(* State.  Each builder variable holds one record of its type and where it *)
(* is: not constructed ("none"), owned by the caller ("live"), dropped by  *)
(* a setter that returned Err ("dropped"), or moved into a PaymentMethod   *)
(* ("moved").  last is the latest call, its text argument and whether it   *)
(* returned a record; added lists the accounts handed to                   *)
(* with_beneficiary_account, in call order; ctor names the constructor the  *)
(* PaymentMethod was built with; out is the latest rendering; want holds,  *)
(* for each single-valued field of the builders, the argument of the       *)
(* latest successful call of its setter.                                   *)

Slot(st, v) == [st |-> st, v |-> v]

Call(op, arg, ok) == [op |-> op, arg |-> arg, ok |-> ok]

\* No setter has been called.
NothingSet ==
    [sepa |-> SepaDefault, acct |-> AcctDefault,
     ubt |-> [consolidator_payable |-> NoBool, payment_reference |-> None,
              payment_reference_checksum |-> None]]

\* The log of arguments after a successful call of the setter op with value.
Noted(w, op, value) ==
    CASE op = "Sepa::with_direct_debit_type" -> [w EXCEPT !.sepa.direct_debit_type = Some(value)]
      [] op = "Sepa::with_bic" -> [w EXCEPT !.sepa.bic = Some(value)]
      [] op = "Sepa::with_iban" -> [w EXCEPT !.sepa.iban = Some(value)]
      [] op = "Sepa::with_bank_account_owner" ->
            [w EXCEPT !.sepa.bank_account_owner = Some(value)]
      [] op = "Sepa::with_creditor_id" -> [w EXCEPT !.sepa.creditor_id = Some(value)]
      [] op = "Sepa::with_mandate_reference" ->
            [w EXCEPT !.sepa.mandate_reference = Some(value)]
      [] op = "Sepa::with_debit_collection_date" ->
            [w EXCEPT !.sepa.debit_collection_date = Some(value)]
      [] op = "Acct::with_bank_name" -> [w EXCEPT !.acct.bank_name = Some(value)]
      [] op = "Acct::with_bank_code" -> [w EXCEPT !.acct.bank_code = Some(value)]
      [] op = "Acct::with_bic" -> [w EXCEPT !.acct.bic = Some(value)]
      [] op = "Acct::with_bank_account_number" ->
            [w EXCEPT !.acct.bank_account_number = Some(value)]
      [] op = "Acct::with_iban" -> [w EXCEPT !.acct.iban = Some(value)]
      [] op = "Acct::with_bank_account_owner" ->
            [w EXCEPT !.acct.bank_account_owner = Some(value)]
      [] op = "Ubt::with_consolidator_payable" ->
            [w EXCEPT !.ubt.consolidator_payable = Some(value)]
      [] op = "Ubt::with_payment_reference" -> [w EXCEPT !.ubt.payment_reference = Some(value)]
      [] op = "Ubt::with_payment_reference_checksum" ->
            [w EXCEPT !.ubt.payment_reference_checksum = Some(value)]
      [] OTHER -> w

Init ==
    /\ sepa = Slot("none", SepaDefault)
    /\ acct = Slot("none", AcctDefault)
    /\ ubt = Slot("none", UbtDefault)
    /\ card = Slot("none", CardDefault)
    /\ pm = Slot("none", PaymentMethodDefault)
    /\ out = [done |-> FALSE, xml |-> <<>>]
    /\ last = Call("", <<>>, TRUE)
    /\ added = <<>>
    /\ ctor = ""
    /\ want = NothingSet

\* Nothing has been constructed yet.
Idle ==
    /\ sepa.st = "none" /\ acct.st = "none" /\ ubt.st = "none"
    /\ card.st = "none" /\ pm.st = "none"

\* The state a Result leaves its receiver in.
After(r) == Slot(IF r.ok THEN "live" ELSE "dropped", r.self)

-----------------------------------------------------------------------------
(* PaymentMethodSEPADirectDebit: constructor and setters.                  *)

SepaNew ==
    /\ Idle
    /\ sepa' = Slot("live", SepaDefault)
    /\ last' = Call("Sepa::new", <<>>, TRUE)
    /\ UNCHANGED <<acct, ubt, card, pm, out, added, ctor, want>>

\* A fallible setter of the direct debit: the record is kept on Ok and
\* dropped on Err.
SepaCall(op, arg, r) ==
    /\ sepa.st = "live"
    /\ sepa' = After(r)
    /\ last' = Call(op, arg, r.ok)
    /\ want' = IF r.ok THEN Noted(want, op, arg) ELSE want
    /\ UNCHANGED <<acct, ubt, card, pm, out, added, ctor>>

SepaWithDirectDebitType ==
    \E t \in DirectDebitTypes :
        SepaCall("Sepa::with_direct_debit_type", t, Ok(Sepa_with_direct_debit_type(sepa.v, t)))

SepaWithBicOver(inputs) ==
    \E bic \in inputs : SepaCall("Sepa::with_bic", bic, Sepa_with_bic(sepa.v, bic))

SepaWithIbanOver(inputs) ==
    \E iban \in inputs : SepaCall("Sepa::with_iban", iban, Sepa_with_iban(sepa.v, iban))

SepaWithBankAccountOwnerOver(inputs) ==
    \E o \in inputs :
        SepaCall("Sepa::with_bank_account_owner", o, Sepa_with_bank_account_owner(sepa.v, o))

SepaWithCreditorIdOver(inputs) ==
    \E c \in inputs :
        SepaCall("Sepa::with_creditor_id", c, Sepa_with_creditor_id(sepa.v, c))

SepaWithMandateReferenceOver(inputs) ==
    \E m \in inputs :
        SepaCall("Sepa::with_mandate_reference", m, Sepa_with_mandate_reference(sepa.v, m))

SepaWithDebitCollectionDateOver(inputs) ==
    \E d \in inputs :
        SepaCall("Sepa::with_debit_collection_date", d,
                 Sepa_with_debit_collection_date(sepa.v, d))

SepaWithBic == SepaWithBicOver(BicInputs)
SepaWithIban == SepaWithIbanOver(CapInputs(SepaIbanMax))
SepaWithBankAccountOwner == SepaWithBankAccountOwnerOver(CapInputs(SepaBankAccountOwnerMax))
SepaWithCreditorId == SepaWithCreditorIdOver(CapInputs(CreditorIdMax))
SepaWithMandateReference == SepaWithMandateReferenceOver(CapInputs(MandateReferenceMax))
SepaWithDebitCollectionDate == SepaWithDebitCollectionDateOver(DateInputs)

-----------------------------------------------------------------------------
(* PaymentMethodUniversalBankTransactionBeneficiaryAccount: constructor    *)
(* and setters.                                                            *)

AcctNew ==
    /\ Idle
    /\ acct' = Slot("live", AcctDefault)
    /\ last' = Call("Acct::new", <<>>, TRUE)
    /\ UNCHANGED <<sepa, ubt, card, pm, out, added, ctor, want>>

\* value is the argument of the call, arg the text of it kept in last.
AcctCallOf(op, arg, value, r) ==
    /\ acct.st = "live"
    /\ acct' = After(r)
    /\ last' = Call(op, arg, r.ok)
    /\ want' = IF r.ok THEN Noted(want, op, value) ELSE want
    /\ UNCHANGED <<sepa, ubt, card, pm, out, added, ctor>>

AcctCall(op, arg, r) == AcctCallOf(op, arg, arg, r)

AcctWithBankNameOver(inputs) ==
    \E n \in inputs : AcctCall("Acct::with_bank_name", n, Acct_with_bank_name(acct.v, n))

\* The bank code is built by BankCode::new, which checks nothing.
AcctWithBankCodeOver(types) ==
    \E code \in BankCodeValues, type \in types :
        AcctCallOf("Acct::with_bank_code", type, BankCode_new(code, type),
                   Acct_with_bank_code(acct.v, BankCode_new(code, type)))

AcctWithBicOver(inputs) ==
    \E bic \in inputs : AcctCall("Acct::with_bic", bic, Acct_with_bic(acct.v, bic))

AcctWithBankAccountNumber ==
    \E n \in FreeTexts :
        AcctCall("Acct::with_bank_account_number", n,
                 Ok(Acct_with_bank_account_number(acct.v, n)))

AcctWithIbanOver(inputs) ==
    \E iban \in inputs : AcctCall("Acct::with_iban", iban, Acct_with_iban(acct.v, iban))

AcctWithBankAccountOwnerOver(inputs) ==
    \E o \in inputs :
        AcctCall("Acct::with_bank_account_owner", o, Acct_with_bank_account_owner(acct.v, o))

AcctWithBankName == AcctWithBankNameOver(CapInputs(BankNameMax))
AcctWithBankCode == AcctWithBankCodeOver(BankCodeTypes)
AcctWithBic == AcctWithBicOver(BicInputs)
AcctWithIban == AcctWithIbanOver(CapInputs(AcctIbanMax))
AcctWithBankAccountOwner == AcctWithBankAccountOwnerOver(CapInputs(AcctBankAccountOwnerMax))

-----------------------------------------------------------------------------
(* PaymentMethodUniversalBankTransaction: constructor and setters.         *)

UbtNew ==
    /\ Idle
    /\ ubt' = Slot("live", UbtDefault)
    /\ last' = Call("Ubt::new", <<>>, TRUE)
    /\ UNCHANGED <<sepa, acct, card, pm, out, added, ctor, want>>

\* value is the argument of the call, arg the text of it kept in last.
UbtCallOf(op, arg, value, r) ==
    /\ ubt.st = "live"
    /\ ubt' = After(r)
    /\ last' = Call(op, arg, r.ok)
    /\ want' = IF r.ok THEN Noted(want, op, value) ELSE want
    /\ UNCHANGED <<sepa, acct, card, pm, out, ctor>>

UbtCall(op, arg, r) == UbtCallOf(op, arg, arg, r)

UbtWithConsolidatorPayable ==
    \E b \in BOOLEAN :
        /\ UbtCallOf("Ubt::with_consolidator_payable", FormatBool(b), b,
                     Ok(Ubt_with_consolidator_payable(ubt.v, b)))
        /\ UNCHANGED added

UbtWithBeneficiaryAccount ==
    \E a \in AccountInputs :
        /\ Len(added) < MaxAccounts
        /\ UbtCall("Ubt::with_beneficiary_account", <<>>,
                   Ok(Ubt_with_beneficiary_account(ubt.v, a)))
        /\ added' = Append(added, a)

UbtWithPaymentReferenceOver(inputs) ==
    \E p \in inputs :
        /\ UbtCall("Ubt::with_payment_reference", p, Ubt_with_payment_reference(ubt.v, p))
        /\ UNCHANGED added

UbtWithPaymentReferenceChecksum ==
    \E c \in FreeTexts :
        /\ UbtCall("Ubt::with_payment_reference_checksum", c,
                   Ok(Ubt_with_payment_reference_checksum(ubt.v, c)))
        /\ UNCHANGED added

UbtWithPaymentReference == UbtWithPaymentReferenceOver(CapInputs(PaymentReferenceMax))

-----------------------------------------------------------------------------
(* PaymentMethodPaymentCard: new, the derived Default, and the setter.     *)

CardNewOver(inputs) ==
    \E pan \in inputs :
        LET r == Card_new(pan)
        IN  /\ Idle
            /\ card' = IF r.ok THEN Slot("live", r.self) ELSE card
            /\ last' = Call("Card::new", pan, r.ok)
            /\ UNCHANGED <<sepa, acct, ubt, pm, out, added, ctor, want>>

CardNew == CardNewOver(PanInputs)

\* PaymentMethodPaymentCard::default()
CardDefaultNew ==
    /\ Idle
    /\ card' = Slot("live", CardDefault)
    /\ last' = Call("Card::default", <<>>, TRUE)
    /\ UNCHANGED <<sepa, acct, ubt, pm, out, added, ctor, want>>

CardWithCardHolderName ==
    \E n \in FreeTexts :
        /\ card.st = "live"
        /\ card' = Slot("live", Card_with_card_holder_name(card.v, n))
        /\ last' = Call("Card::with_card_holder_name", n, TRUE)
        /\ UNCHANGED <<sepa, acct, ubt, pm, out, added, ctor, want>>

-----------------------------------------------------------------------------
(* PaymentMethod: constructors, with_comment and to_xml.                   *)

Comments == { <<67>> }

PmBuilt(op, v) ==
    /\ pm.st = "none"
    /\ pm' = Slot("live", v)
    /\ last' = Call(op, <<>>, TRUE)
    /\ ctor' = op
    /\ UNCHANGED <<out, added, want>>

\* PaymentMethod { ..Default::default() }
PmDefault ==
    /\ Idle
    /\ PmBuilt("PaymentMethod::default", PaymentMethodDefault)
    /\ UNCHANGED <<sepa, acct, ubt, card>>

PmNoPayment ==
    /\ Idle
    /\ PmBuilt("PaymentMethod::no_payment", PaymentMethod_no_payment)
    /\ UNCHANGED <<sepa, acct, ubt, card>>

PmOtherPayment ==
    /\ Idle
    /\ PmBuilt("PaymentMethod::other_payment", PaymentMethod_other_payment)
    /\ UNCHANGED <<sepa, acct, ubt, card>>

PmSepaDirectDebit ==
    /\ sepa.st = "live"
    /\ PmBuilt("PaymentMethod::sepa_direct_debit", PaymentMethod_sepa_direct_debit(sepa.v))
    /\ sepa' = Slot("moved", SepaDefault)
    /\ UNCHANGED <<acct, ubt, card>>

PmUniversalBankTransaction ==
    /\ ubt.st = "live"
    /\ PmBuilt("PaymentMethod::universal_bank_transaction",
               PaymentMethod_universal_bank_transaction(ubt.v))
    /\ ubt' = Slot("moved", UbtDefault)
    /\ UNCHANGED <<sepa, acct, card>>

PmBeneficiaryAccount ==
    /\ acct.st = "live"
    /\ PmBuilt("PaymentMethod::universal_bank_transaction_beneficiary_account",
               PaymentMethod_universal_bank_transaction_beneficiary_account(acct.v))
    /\ acct' = Slot("moved", AcctDefault)
    /\ UNCHANGED <<sepa, ubt, card>>

PmPaymentCard ==
    /\ card.st = "live"
    /\ PmBuilt("PaymentMethod::payment_card", PaymentMethod_payment_card(card.v))
    /\ card' = Slot("moved", CardDefault)
    /\ UNCHANGED <<sepa, acct, ubt>>

PmWithComment ==
    \E c \in Comments :
        /\ pm.st = "live"
        /\ pm' = Slot("live", PaymentMethod_with_comment(pm.v, c))
        /\ last' = Call("PaymentMethod::with_comment", c, TRUE)
        /\ UNCHANGED <<sepa, acct, ubt, card, out, added, ctor, want>>

\* to_xml borrows the record and returns its rendering.
PmToXml ==
    /\ pm.st = "live"
    /\ out' = [done |-> TRUE, xml |-> PaymentMethod_to_xml(pm.v)]
    /\ last' = Call("PaymentMethod::to_xml", <<>>, TRUE)
    /\ UNCHANGED <<sepa, acct, ubt, card, pm, added, ctor, want>>

-----------------------------------------------------------------------------
(* Spec: the builder chains over the boundary inputs, the wrapping into a  *)
(* PaymentMethod and its rendering.                                        *)

Next ==
    \/ SepaNew \/ SepaWithDirectDebitType \/ SepaWithBic \/ SepaWithIban
    \/ SepaWithBankAccountOwner \/ SepaWithCreditorId \/ SepaWithMandateReference
    \/ SepaWithDebitCollectionDate
    \/ AcctNew \/ AcctWithBankName \/ AcctWithBankCode \/ AcctWithBic
    \/ AcctWithBankAccountNumber \/ AcctWithIban \/ AcctWithBankAccountOwner
    \/ UbtNew \/ UbtWithConsolidatorPayable \/ UbtWithBeneficiaryAccount
    \/ UbtWithPaymentReference \/ UbtWithPaymentReferenceChecksum
    \/ CardNew \/ CardDefaultNew \/ CardWithCardHolderName
    \/ PmDefault \/ PmNoPayment \/ PmOtherPayment \/ PmSepaDirectDebit
    \/ PmUniversalBankTransaction \/ PmBeneficiaryAccount \/ PmPaymentCard
    \/ PmWithComment \/ PmToXml

Spec == Init /\ [][Next]_vars

-----------------------------------------------------------------------------
(* SpecValidate: one validated call on a freshly constructed record, over  *)
(* the wide input sets.                                                    *)

FreshSepa == sepa.st = "live" /\ sepa.v = SepaDefault
FreshAcct == acct.st = "live" /\ acct.v = AcctDefault
FreshUbt == ubt.st = "live" /\ ubt.v = UbtDefault

ValidateSepaBic == FreshSepa /\ SepaWithBicOver(BicInputsWide)
ValidateSepaIban == FreshSepa /\ SepaWithIbanOver(CapInputsWide(SepaIbanMax))
ValidateSepaBankAccountOwner ==
    FreshSepa /\ SepaWithBankAccountOwnerOver(CapInputsWide(SepaBankAccountOwnerMax))
ValidateSepaCreditorId == FreshSepa /\ SepaWithCreditorIdOver(CapInputsWide(CreditorIdMax))
ValidateSepaMandateReference ==
    FreshSepa /\ SepaWithMandateReferenceOver(CapInputsWide(MandateReferenceMax))
ValidateSepaDebitCollectionDate == FreshSepa /\ SepaWithDebitCollectionDateOver(DateInputsWide)
ValidateAcctBankName == FreshAcct /\ AcctWithBankNameOver(CapInputsWide(BankNameMax))
ValidateAcctBankCode == FreshAcct /\ AcctWithBankCodeOver(BankCodeTypesWide)
ValidateAcctBic == FreshAcct /\ AcctWithBicOver(BicInputsWide)
ValidateAcctIban == FreshAcct /\ AcctWithIbanOver(CapInputsWide(AcctIbanMax))
ValidateAcctBankAccountOwner ==
    FreshAcct /\ AcctWithBankAccountOwnerOver(CapInputsWide(AcctBankAccountOwnerMax))
ValidateUbtPaymentReference ==
    FreshUbt /\ UbtWithPaymentReferenceOver(CapInputsWide(PaymentReferenceMax))
ValidateCardNew == CardNewOver(PanInputsWide)

NextValidate ==
    \/ SepaNew \/ AcctNew \/ UbtNew
    \/ ValidateSepaBic \/ ValidateSepaIban \/ ValidateSepaBankAccountOwner
    \/ ValidateSepaCreditorId \/ ValidateSepaMandateReference
    \/ ValidateSepaDebitCollectionDate
    \/ ValidateAcctBankName \/ ValidateAcctBankCode \/ ValidateAcctBic
    \/ ValidateAcctIban \/ ValidateAcctBankAccountOwner
    \/ ValidateUbtPaymentReference
    \/ ValidateCardNew

SpecValidate == Init /\ [][NextValidate]_vars

-----------------------------------------------------------------------------
(* Vocabulary of the properties.                                           *)

IsAsciiDigit(c) == c >= 48 /\ c <= 57
IsAsciiLetter(c) == (c >= 65 /\ c <= 90) \/ (c >= 97 /\ c <= 122)

\* The setters with a length limit, and the limit of each.
CappedSetters ==
    {"Sepa::with_iban", "Sepa::with_bank_account_owner", "Sepa::with_creditor_id",
     "Sepa::with_mandate_reference", "Acct::with_bank_name", "Acct::with_iban",
     "Acct::with_bank_account_owner", "Ubt::with_payment_reference"}

CapOf(op) ==
    CASE op = "Sepa::with_iban" -> 34
      [] op = "Sepa::with_bank_account_owner" -> 70
      [] op = "Sepa::with_creditor_id" -> 35
      [] op = "Sepa::with_mandate_reference" -> 35
      [] op = "Acct::with_bank_name" -> 255
      [] op = "Acct::with_iban" -> 34
      [] op = "Acct::with_bank_account_owner" -> 70
      [] op = "Ubt::with_payment_reference" -> 35

\* 0 to 6 digits, one '*', 0 to 4 digits.
MaskedPanShape(s) ==
    /\ Cardinality({ i \in 1..Len(s) : s[i] = 42 }) = 1
    /\ \A i \in 1..Len(s) :
          \/ IsAsciiDigit(s[i])
          \/ s[i] = 42 /\ i - 1 <= 6 /\ Len(s) - i <= 4

\* 8 or 11 ASCII letters and digits.
BicShape(s) ==
    /\ Len(s) \in {8, 11}
    /\ \A i \in 1..Len(s) : IsAsciiDigit(s[i]) \/ IsAsciiLetter(s[i])

\* 4 digits, '-', 2 digits, '-', 2 digits.
DateShape(s) ==
    /\ Len(s) = 10
    /\ s[5] = 45 /\ s[8] = 45
    /\ \A i \in {1, 2, 3, 4, 6, 7, 9, 10} : IsAsciiDigit(s[i])

\* The constraints of the fields that are set, lengths in characters.
ValidSepa(r) ==
    /\ r.bic.some => BicShape(r.bic.v)
    /\ r.iban.some => Len(r.iban.v) <= 34
    /\ r.bank_account_owner.some => Len(r.bank_account_owner.v) <= 70
    /\ r.creditor_id.some => Len(r.creditor_id.v) <= 35
    /\ r.mandate_reference.some => Len(r.mandate_reference.v) <= 35
    /\ r.debit_collection_date.some => DateShape(r.debit_collection_date.v)

ValidAcct(r) ==
    /\ r.bank_name.some => Len(r.bank_name.v) <= 255
    /\ r.bank_code.some => Len(r.bank_code.v.bank_code_type) = 2
    /\ r.bic.some => BicShape(r.bic.v)
    /\ r.iban.some => Len(r.iban.v) <= 34
    /\ r.bank_account_owner.some => Len(r.bank_account_owner.v) <= 70

ValidUbt(r) ==
    /\ \A i \in 1..Len(r.beneficiary_account.v) : ValidAcct(r.beneficiary_account.v[i])
    /\ r.payment_reference.some => Len(r.payment_reference.v) <= 35

ValidCard(r) == MaskedPanShape(r.primary_account_number)

\* The latest step rendered the PaymentMethod as it is now.
Rendered == last.op = "PaymentMethod::to_xml"

\* A text element as it appears in markup.
Elem(name, text) == <<OpenTok(name, <<>>), TextTok(text), CloseTok(name)>>

CommentPart(p) == IF p.comment.some THEN Elem("Comment", p.comment.v) ELSE <<>>

\* The markup between the PaymentMethod tags, after the Comment element.
VariantPart == SubSeq(out.xml, 2 + Len(CommentPart(pm.v)), Len(out.xml) - 1)

-----------------------------------------------------------------------------
(* C1.  Each length-capped setter fails if and only if the length of the   *)
(* text in characters exceeds the cap; a text of multi-byte characters     *)
(* with at most cap characters is accepted.                                *)
(* The code compares the byte length: the statement is violated.           *)
C1_CapCountsCharacters ==
    last.op \in CappedSetters => (last.ok <=> Len(last.arg) <= CapOf(last.op))

-----------------------------------------------------------------------------
(* C2.  Every record built through new, the derived Default and the        *)
(* setters and then rendered is validated: a payment card has a masked     *)
(* primary account number, a stored bank code has a 2-character type, and  *)
(* every set text field is within its limit and shape.                     *)
(* A card from Default has the empty number: the statement is violated.    *)
C2_RenderedRecordsValidated ==
    Rendered =>
        CASE pm.v.method.type = "SEPADirectDebit" -> ValidSepa(pm.v.method.sepa)
          [] pm.v.method.type = "UniversalBankTransactionBeneficiaryAccount" ->
                ValidAcct(pm.v.method.acct)
          [] pm.v.method.type = "UniversalBankTransaction" -> ValidUbt(pm.v.method.ubt)
          [] pm.v.method.type = "PaymentCard" -> ValidCard(pm.v.method.card)
          [] OTHER -> TRUE

-----------------------------------------------------------------------------
(* C3.  A fallible setter that rejects its input returns an error and      *)
(* leaves every field of its record as it was before the call; the record  *)
(* is gone with the error, so no later setter is applied to it.            *)
C3_RejectionLeavesRecord ==
    [][ /\ ~last'.ok =>
             /\ sepa'.v = sepa.v /\ acct'.v = acct.v /\ ubt'.v = ubt.v
             /\ card'.v = card.v /\ pm' = pm /\ added' = added
             /\ \/ sepa.st = "live" /\ sepa'.st = "dropped"
                \/ acct.st = "live" /\ acct'.st = "dropped"
                \/ ubt.st = "live" /\ ubt'.st = "dropped"
                \/ last'.op = "Card::new" /\ card' = card
        /\ sepa.st = "dropped" => sepa' = sepa
        /\ acct.st = "dropped" => acct' = acct
        /\ ubt.st = "dropped" => ubt' = ubt ]_vars

\* A direct debit with fields set was handed an IBAN that is too long.
C3_Witness ==
    /\ last.op = "Sepa::with_iban" /\ ~last.ok
    /\ sepa.st = "dropped"
    /\ sepa.v.iban.some /\ sepa.v.bic.some /\ sepa.v.debit_collection_date.some

-----------------------------------------------------------------------------
(* C4.  with_bic of the direct debit and with_bic of the beneficiary       *)
(* account accept the same texts: those of exactly 8 or exactly 11         *)
(* characters, each an ASCII digit or letter.                              *)
C4_BicAcceptedIffShape ==
    last.op \in {"Sepa::with_bic", "Acct::with_bic"} => (last.ok <=> BicShape(last.arg))

\* The beneficiary account accepted a BIC of 11 characters.
C4_Witness ==
    /\ last.op = "Acct::with_bic" /\ last.ok /\ Len(last.arg) = 11
    /\ acct.v.bic = Some(last.arg)

-----------------------------------------------------------------------------
(* C5.  PaymentMethodPaymentCard::new accepts a number if and only if it   *)
(* is 0 to 6 digits, one '*', 0 to 4 digits: "123456*4321" and "*" are     *)
(* accepted, "1234567*4321" and "123456*43210" are rejected.               *)
C5_PanAcceptedIffMasked ==
    last.op = "Card::new" =>
        /\ last.ok <=> MaskedPanShape(last.arg)
        /\ last.arg \in {Pan_123456_4321, <<42>>} => last.ok
        /\ last.arg \in {Pan_1234567_4321, Pan_123456_43210} => ~last.ok

\* new("*") returned a card.
C5_Witness ==
    /\ last.op = "Card::new" /\ last.ok /\ last.arg = <<42>>
    /\ card = Slot("live", [primary_account_number |-> <<42>>, card_holder_name |-> None])

-----------------------------------------------------------------------------
(* C6.  with_debit_collection_date accepts a text if and only if it is 4   *)
(* digits, '-', 2 digits, '-', 2 digits; "2020-13-99" and "2020-13-40" are *)
(* accepted.                                                               *)
C6_DateAcceptedIffShape ==
    last.op = "Sepa::with_debit_collection_date" =>
        /\ last.ok <=> DateShape(last.arg)
        /\ last.arg \in {Date_2020_13_99, Date_2020_13_40} => last.ok

\* "2020-13-99" was accepted and stored.
C6_Witness ==
    /\ last.op = "Sepa::with_debit_collection_date" /\ last.ok
    /\ last.arg = Date_2020_13_99
    /\ sepa.v.debit_collection_date = Some(Date_2020_13_99)

-----------------------------------------------------------------------------
(* C7.  with_bank_code accepts a bank code if and only if its type is      *)
(* exactly 2 characters long, whatever the integer.                        *)
(* The code compares the byte length: the statement is violated.           *)
C7_BankCodeTypeTwoCharacters ==
    last.op = "Acct::with_bank_code" => (last.ok <=> Len(last.arg) = 2)

-----------------------------------------------------------------------------
(* C8.  The rendering of a universal bank transaction carries the          *)
(* attribute ConsolidatorPayable, "true" or "false" ("false" when never    *)
(* set); then one BeneficiaryAccount block per with_beneficiary_account    *)
(* call, in call order; then, after all accounts, a PaymentReference       *)
(* element if and only if a payment reference is set, with the attribute   *)
(* CheckSum if and only if a checksum is set as well.                      *)
C8_UbtRendering ==
    (Rendered /\ ctor = "PaymentMethod::universal_bank_transaction") =>
        LET u == pm.v.method.ubt
            x == VariantPart
            payable == IF u.consolidator_payable = Some(TRUE)
                       THEN <<116, 114, 117, 101>> ELSE <<102, 97, 108, 115, 101>>
            \* Where the block of the i-th account added begins in x.
            start[i \in 1..(Len(added) + 1)] ==
                IF i = 1 THEN 2 ELSE start[i - 1] + Len(Acct_to_xml(added[i - 1]))
            rest == SubSeq(x, start[Len(added) + 1], Len(x) - 1)
            checksum == IF u.payment_reference_checksum.some
                        THEN <<Attr("CheckSum", u.payment_reference_checksum.v)>>
                        ELSE <<>>
        IN  /\ x[1] = OpenTok("UniversalBankTransaction",
                              <<Attr("ConsolidatorPayable", payable)>>)
            /\ x[Len(x)] = CloseTok("UniversalBankTransaction")
            /\ \A i \in 1..Len(added) :
                  SubSeq(x, start[i], start[i + 1] - 1) = Acct_to_xml(added[i])
            /\ rest = IF u.payment_reference.some
                      THEN <<OpenTok("PaymentReference", checksum),
                             TextTok(u.payment_reference.v),
                             CloseTok("PaymentReference")>>
                      ELSE <<>>

\* Two different accounts, a payment reference and a checksum were set and
\* the transaction was rendered.
C8_Witness ==
    /\ Rendered /\ ctor = "PaymentMethod::universal_bank_transaction"
    /\ Len(added) = 2 /\ added[1] = AccountFull /\ added[2] = AccountShort
    /\ pm.v.method.ubt.payment_reference.some
    /\ pm.v.method.ubt.payment_reference_checksum.some
    /\ pm.v.method.ubt.consolidator_payable = Some(TRUE)

-----------------------------------------------------------------------------
(* C9.  The rendering of a SEPA direct debit begins with the Type element, *)
(* carrying the set value or "B2C", followed by exactly the elements of    *)
(* the fields that are set, in the order BIC, IBAN, BankAccountOwner,      *)
(* CreditorID, MandateReference, DebitCollectionDate, each with its value  *)
(* as text.                                                                *)
C9_SepaRendering ==
    (Rendered /\ ctor = "PaymentMethod::sepa_direct_debit") =>
        LET r == pm.v.method.sepa
            x == VariantPart
            fields == <<[name |-> "BIC", f |-> r.bic],
                        [name |-> "IBAN", f |-> r.iban],
                        [name |-> "BankAccountOwner", f |-> r.bank_account_owner],
                        [name |-> "CreditorID", f |-> r.creditor_id],
                        [name |-> "MandateReference", f |-> r.mandate_reference],
                        [name |-> "DebitCollectionDate", f |-> r.debit_collection_date]>>
            set == SelectSeq(fields, LAMBDA e : e.f.some)
            type == IF r.direct_debit_type.some THEN r.direct_debit_type.v
                    ELSE <<66, 50, 67>>
        IN  /\ Len(x) = 2 + 3 * (1 + Len(set))
            /\ x[1] = OpenTok("SEPADirectDebit", <<>>)
            /\ x[Len(x)] = CloseTok("SEPADirectDebit")
            /\ SubSeq(x, 2, 4) = Elem("Type", type)
            /\ \A k \in 1..Len(set) :
                  SubSeq(x, 3 * k + 2, 3 * k + 4) = Elem(set[k].name, set[k].f.v)

\* A direct debit with no type and the six other fields set was rendered.
C9_Witness ==
    /\ Rendered /\ ctor = "PaymentMethod::sepa_direct_debit"
    /\ ~pm.v.method.sepa.direct_debit_type.some
    /\ pm.v.method.sepa.bic.some /\ pm.v.method.sepa.iban.some
    /\ pm.v.method.sepa.bank_account_owner.some /\ pm.v.method.sepa.creditor_id.some
    /\ pm.v.method.sepa.mandate_reference.some
    /\ pm.v.method.sepa.debit_collection_date.some

-----------------------------------------------------------------------------
(* C10.  The rendering of a PaymentMethod is one PaymentMethod element     *)
(* holding the Comment element first if and only if a comment is set, and  *)
(* then the rendering of the one variant of the constructor used; the      *)
(* default record and no_payment() render exactly                          *)
(* <PaymentMethod><NoPayment></NoPayment></PaymentMethod>; with_comment    *)
(* never changes the variant.                                              *)
C10_PaymentMethodRendering ==
    LET variant ==
            CASE ctor \in {"PaymentMethod::default", "PaymentMethod::no_payment"} -> "NoPayment"
              [] ctor = "PaymentMethod::sepa_direct_debit" -> "SEPADirectDebit"
              [] ctor = "PaymentMethod::universal_bank_transaction" -> "UniversalBankTransaction"
              [] ctor = "PaymentMethod::universal_bank_transaction_beneficiary_account" ->
                    "UniversalBankTransactionBeneficiaryAccount"
              [] ctor = "PaymentMethod::payment_card" -> "PaymentCard"
              [] ctor = "PaymentMethod::other_payment" -> "OtherPayment"
              [] OTHER -> ""
        tag == IF variant = "UniversalBankTransactionBeneficiaryAccount"
               THEN "BeneficiaryAccount" ELSE variant
        x == out.xml
        n == Len(CommentPart(pm.v))
        \* The opening tags directly inside the PaymentMethod element.
        depth[i \in 0..Len(x)] ==
            IF i = 0 THEN 0
            ELSE depth[i - 1] + (CASE x[i].k = "open" -> 1 [] x[i].k = "close" -> -1
                                   [] OTHER -> 0)
        children == { i \in 1..Len(x) : x[i].k = "open" /\ depth[i] = 2 }
    IN  /\ pm.st = "live" => pm.v.method.type = variant
        /\ Rendered =>
              /\ x[1] = OpenTok("PaymentMethod", <<>>)
              /\ x[Len(x)] = CloseTok("PaymentMethod")
              /\ SubSeq(x, 2, 1 + n) = CommentPart(pm.v)
              /\ pm.v.comment.some <=> (x[2].k = "open" /\ x[2].name = "Comment")
              /\ children = (IF pm.v.comment.some THEN {2} ELSE {}) \cup {2 + n}
              /\ x[2 + n].name = tag
              /\ x[Len(x) - 1] = CloseTok(tag)
              /\ (variant = "NoPayment" /\ ~pm.v.comment.some) =>
                    x = <<OpenTok("PaymentMethod", <<>>), OpenTok("NoPayment", <<>>),
                          CloseTok("NoPayment"), CloseTok("PaymentMethod")>>
              /\ variant = "OtherPayment" =>
                    VariantPart = <<OpenTok("OtherPayment", <<>>), CloseTok("OtherPayment")>>

\* other_payment() was given a comment and rendered.
C10_Witness ==
    /\ Rendered /\ ctor = "PaymentMethod::other_payment"
    /\ pm.v.comment = Some(<<67>>)
    /\ Len(out.xml) = 7

-----------------------------------------------------------------------------
(* C11.  After any sequence of successful setter calls on a direct debit,  *)
(* a beneficiary account or a universal bank transaction, each             *)
(* single-valued field holds the argument of the latest successful call    *)
(* of its own setter, or nothing if that setter was never called (so a     *)
(* setter changes no field but its own), and the accounts are those handed *)
(* to with_beneficiary_account, in call order.                             *)
C11_FieldsHoldLatestArguments ==
    /\ sepa.st = "live" =>
          /\ sepa.v.direct_debit_type = want.sepa.direct_debit_type
          /\ sepa.v.bic = want.sepa.bic
          /\ sepa.v.iban = want.sepa.iban
          /\ sepa.v.bank_account_owner = want.sepa.bank_account_owner
          /\ sepa.v.creditor_id = want.sepa.creditor_id
          /\ sepa.v.mandate_reference = want.sepa.mandate_reference
          /\ sepa.v.debit_collection_date = want.sepa.debit_collection_date
    /\ acct.st = "live" =>
          /\ acct.v.bank_name = want.acct.bank_name
          /\ acct.v.bank_code = want.acct.bank_code
          /\ acct.v.bic = want.acct.bic
          /\ acct.v.bank_account_number = want.acct.bank_account_number
          /\ acct.v.iban = want.acct.iban
          /\ acct.v.bank_account_owner = want.acct.bank_account_owner
    /\ ubt.st = "live" =>
          /\ ubt.v.consolidator_payable = want.ubt.consolidator_payable
          /\ ubt.v.payment_reference = want.ubt.payment_reference
          /\ ubt.v.payment_reference_checksum = want.ubt.payment_reference_checksum
          /\ ubt.v.beneficiary_account.some <=> added # <<>>
          /\ ubt.v.beneficiary_account.v = added

\* A direct debit whose creditor id was set after its mandate reference and
\* its IBAN, with no BIC set.
C11_Witness ==
    /\ sepa.st = "live"
    /\ last.op = "Sepa::with_creditor_id" /\ last.ok
    /\ sepa.v.creditor_id = Some(last.arg)
    /\ sepa.v.mandate_reference.some /\ sepa.v.iban.some
    /\ ~sepa.v.bic.some

=============================================================================
